---- MODULE Spec2Model ----
(***************************************************************************)
(* Model of the AI video pipeline: the Flask trigger (server.py), the      *)
(* command-line entry point and the stage pipeline (main.py) and the stage *)
(* adapters under scripts/.                                                *)
(*                                                                         *)
(* Every HTTP request r is one handler thread of server.run_pipeline; the  *)
(* child process it starts with subprocess.run executes main.py, so the    *)
(* handler's position pc[r] continues through the stages of main.py and    *)
(* comes back to the handler when the child exits.  The filesystem (the    *)
(* runs/<run_id> workspaces, assets/images and output/) and the YouTube    *)
(* channel are shared by all requests.  Every file carries the request     *)
(* that wrote it (0 = the file does not exist).                            *)
(***************************************************************************)
EXTENDS Integers, Sequences, FiniteSets, TLC

(***************************************************************************)
(* Bounds of the model.                                                    *)
(***************************************************************************)
NumReqs == 2        \* HTTP requests that may arrive, or shells with a command line
MaxTime == 1        \* the wall clock runs over the seconds 0..MaxTime
MaxImages == 2      \* scenes per script and photos per search (the code allows 6)
MaxFaults == 1      \* calls to external services and tools that may raise
NumCli == 1         \* command-line invocations of main.py (at most NumReqs)

Reqs == 1..NumReqs
Clis == 1..NumCli
RunIds == 0..MaxTime
ImgIdx == 0..(MaxImages - 1)
Owners == 0..NumReqs

(***************************************************************************)
(* Python strings are sequences of one-character strings.                  *)
(***************************************************************************)
S_empty == << >>
S_v == <<"v">>
S_space == <<" ">>
S_eq_v == <<"=", "v">>
S_short == <<"s", "h", "o", "r", "t">>
S_SHORT == <<"S", "H", "O", "R", "T">>
S_video == <<"v", "i", "d", "e", "o">>
S_gif == <<"g", "i", "f">>
S_true == <<"t", "r", "u", "e">>
S_TRUE == <<"T", "R", "U", "E">>
S_True == <<"T", "r", "u", "e">>
S_False == <<"F", "a", "l", "s", "e">>
S_false == <<"f", "a", "l", "s", "e">>
S_yes == <<"y", "e", "s">>
S_no == <<"n", "o">>
S_1 == <<"1">>
S_0 == <<"0">>
S_2 == <<"2">>
S_y == <<"y">>
S_None == <<"N", "o", "n", "e">>
S_private == <<"p", "r", "i", "v", "a", "t", "e">>
S_public == <<"p", "u", "b", "l", "i", "c">>
S_PUBLIC == <<"P", "U", "B", "L", "I", "C">>

\* str.lower() on one character
LowerChar(c) ==
    CASE c = "S" -> "s" [] c = "H" -> "h" [] c = "O" -> "o" [] c = "R" -> "r"
      [] c = "T" -> "t" [] c = "U" -> "u" [] c = "E" -> "e" [] c = "P" -> "p"
      [] c = "B" -> "b" [] c = "L" -> "l" [] c = "I" -> "i" [] c = "C" -> "c"
      [] c = "N" -> "n" [] c = "F" -> "f" [] c = "V" -> "v" [] c = "Y" -> "y"
      [] OTHER -> c

Lower(s) == [i \in 1..Len(s) |-> LowerChar(s[i])]

RECURSIVE LStrip(_)
LStrip(s) == IF s # << >> /\ Head(s) = " " THEN LStrip(Tail(s)) ELSE s

RECURSIVE RStrip(_)
RStrip(s) ==
    IF s # << >> /\ s[Len(s)] = " " THEN RStrip(SubSeq(s, 1, Len(s) - 1)) ELSE s

\* str.strip()
Strip(s) == RStrip(LStrip(s))

\* s.startswith("=")
StartsWithEq(s) == s # << >> /\ Head(s) = "="

\* the '=' prefix rule: if s.startswith("="): s = s[1:].strip()
StripEq(s) == IF StartsWithEq(s) THEN Strip(Tail(s)) ELSE s

(***************************************************************************)
(* JSON values of a request body's fields.                                 *)
(***************************************************************************)
Missing == [t |-> "missing"]
JNull == [t |-> "null"]
JStr(s) == [t |-> "str", s |-> s]
JBool(b) == [t |-> "bool", b |-> b]
JNum1 == [t |-> "num"]              \* the JSON number 1

\* str(x) of a decoded JSON value
PyStr(x) ==
    CASE x.t = "str" -> x.s
      [] x.t = "bool" -> IF x.b THEN S_True ELSE S_False
      [] x.t = "null" -> S_None
      [] OTHER -> S_1

\* data.get(key, default)
Get(x, default) == IF x.t = "missing" THEN default ELSE x

(***************************************************************************)
(* server.py: parsing of the request body (lines 29-67).                   *)
(***************************************************************************)
\* topic = str(data.get("topic", "")).strip(), then the '=' prefix rule
ParseTopic(data) == StripEq(Strip(PyStr(Get(data.topic, JStr(S_empty)))))

\* format_choice = str(data.get("format", "video")).strip().lower(), then '='
ParseFormat(data) == StripEq(Lower(Strip(PyStr(Get(data.format, JStr(S_video))))))

\* privacy = str(data.get("privacy", "private")).strip().lower(), then '='
ParsePrivacy(data) == StripEq(Lower(Strip(PyStr(Get(data.privacy, JStr(S_private))))))

\* upload_input = data.get("upload"); a string starting with '=' loses it
UploadInput(data) ==
    IF data.upload.t = "str" /\ StartsWithEq(data.upload.s)
    THEN JStr(Strip(Tail(data.upload.s)))
    ELSE data.upload

\* the conversion of upload_input to a boolean
ParseUpload(x) ==
    CASE x.t = "bool" -> x.b
      [] x.t = "str" -> Lower(x.s) \in {S_true, S_yes, S_1}
      [] OTHER -> FALSE

\* the format tokens the server accepts
ServerFormatOk(f) == f \in {S_short, S_video}

\* the argument list handed to main.py
ServerArgv(data) ==
    << ParseTopic(data), ParseFormat(data),
       IF ParseUpload(UploadInput(data)) THEN S_true ELSE S_false,
       ParsePrivacy(data) >>

(***************************************************************************)
(* main.py: get_inputs with four or more arguments, and the format         *)
(* mapping of the __main__ block.                                          *)
(***************************************************************************)
GetInputs(args) ==
    [ topic |-> args[1],
      format |-> Lower(args[2]),
      upload |-> (Lower(args[3]) = S_true),
      privacy |-> Lower(args[4]) ]

\* get_inputs with fewer than four arguments: the answers typed at the four
\* prompts (the privacy prompt appears only when the upload answer is y)
InteractiveInputs(ans) ==
    LET upload == (Lower(Strip(ans.upload)) = S_y) IN
    [ topic |-> ans.topic,
      format |-> IF ans.format = S_2 THEN S_short ELSE S_video,
      upload |-> upload,
      privacy |-> IF upload /\ ans.privacy = S_1 THEN S_public ELSE S_private ]

NoAnswers == [topic |-> S_empty, format |-> S_empty, upload |-> S_empty, privacy |-> S_empty]

\* what may be typed at the prompts
Answers ==
    [ topic : {S_v, S_space}, format : {S_1, S_2}, upload : {S_y, S_no},
      privacy : {S_1, S_2} ]

\* the prompts of get_inputs appear only with fewer than four arguments
Prompted(args) == IF Len(args) >= 4 THEN {NoAnswers} ELSE Answers

\* get_inputs
ReadInputs(args, ans) ==
    IF Len(args) >= 4 THEN GetInputs(args) ELSE InteractiveInputs(ans)

FormatType(format) == IF format = S_short THEN "portrait" ELSE "landscape"

\* the argument lists typed on the command line: four arguments, or none
CliArgs ==
    { << t, f, u, p >> : t \in {S_v, S_space, S_empty}, f \in {S_SHORT, S_video, S_gif},
                         u \in {S_TRUE, S_yes, S_1, S_no}, p \in {S_private, S_PUBLIC} }
    \cup { << >> }

(***************************************************************************)
(* The request bodies the clients send.                                    *)
(***************************************************************************)
Topics == { Missing, JStr(S_v), JStr(S_eq_v), JStr(S_space) }
Formats == { Missing, JStr(S_short), JStr(S_SHORT), JStr(S_gif) }
Uploads == { Missing, JBool(TRUE), JStr(S_yes), JStr(S_no) }
Privacies == { Missing, JStr(S_PUBLIC) }

NoFields == [topic |-> Missing, format |-> Missing, upload |-> Missing, privacy |-> Missing]

\* kind: a JSON object, an array holding one object, an empty array, null
RequestBodies ==
    { [kind |-> "object", data |-> [topic |-> t, format |-> f, upload |-> u, privacy |-> p]] :
        t \in Topics, f \in Formats, u \in Uploads, p \in Privacies }
    \cup { [kind |-> "array1",
            data |-> [topic |-> JStr(S_eq_v), format |-> JStr(S_SHORT),
                      upload |-> JStr(S_yes), privacy |-> JStr(S_PUBLIC)]],
           [kind |-> "array1", data |-> NoFields],
           [kind |-> "array0", data |-> NoFields],
           [kind |-> "null", data |-> NoFields] }

NoBody == [kind |-> "none", data |-> NoFields]

(***************************************************************************)
(* The files of a workspace and of the output directory.                   *)
(***************************************************************************)
WsNames == { "script.txt", "voice.mp3", "voice.srt", "final.mp4",
             "final_subtitled.mp4", "thumbnail.jpg" }
OutNames == { "final.mp4", "final_subtitled.mp4" }

NoWorkspace ==
    [exists |-> FALSE, files |-> [n \in WsNames |-> 0], images |-> [i \in ImgIdx |-> 0]]

NoResponse == [status |-> "none", code |-> 0]
NoCfg == [topic |-> S_empty, upload |-> FALSE, format_type |-> "none", privacy |-> S_empty]
NoRun ==
    [run_id |-> 0, scenes |-> 0, searches |-> << >>, images |-> {},
     video_path |-> "none", final_video |-> "none", thumbnail_path |-> "none",
     handed |-> "none", exitcode |-> 0]

VARIABLES
    pipeline_lock,  \* server.pipeline_lock: TRUE when held
    now,            \* the second the clock showed when it was last read (-1: never)
    pc,             \* position of every request's handler and child process
    trigger,        \* how a request was started: "http", "cli", or "none" yet
    body,           \* request.json of a request being validated
    argv,           \* sys.argv[1:] of the child process
    cfg,            \* the arguments of main.run_pipeline
    run,            \* the locals of main.run_pipeline
    log,            \* the stages a run has executed, with their outcome
    ret,            \* the value the handler returns
    response,       \* the response the client has received
    runs,           \* the directories runs/<run_id>
    assets,         \* the files assets/images/img<i>.jpg
    output,         \* the files of output/
    youtube,        \* the videos on the channel
    faults          \* the calls to external services that have raised so far

vars == << pipeline_lock, now, pc, trigger, body, argv, cfg, run, log, ret, response,
           runs, assets, output, youtube, faults >>

fsvars == << runs, assets, output, youtube >>
procvars == << argv, cfg, run, log >>

Init ==
    /\ pipeline_lock = FALSE
    /\ now = -1
    /\ pc = [r \in Reqs |-> "idle"]
    /\ trigger = [r \in Reqs |-> "none"]
    /\ body = [r \in Reqs |-> NoBody]
    /\ argv = [r \in Reqs |-> << >>]
    /\ cfg = [r \in Reqs |-> NoCfg]
    /\ run = [r \in Reqs |-> NoRun]
    /\ log = [r \in Reqs |-> << >>]
    /\ ret = [r \in Reqs |-> NoResponse]
    /\ response = [r \in Reqs |-> NoResponse]
    /\ runs = [id \in RunIds |-> NoWorkspace]
    /\ assets = [i \in ImgIdx |-> 0]
    /\ output = [n \in OutNames |-> 0]
    /\ youtube = {}
    /\ faults = 0

(***************************************************************************)
(* server.run_pipeline                                                     *)
(***************************************************************************)
\* (faulty variant of Acquire: the lock is taken without looking at it)
AcquireUnchecked(lock) == TRUE

\* pipeline_lock.acquire(blocking=False): TRUE iff the lock was free
Acquire(lock) == lock = FALSE

\* (faulty variant of Rejected: the busy return sits inside the try block, so the
\* finally block releases the lock)
RejectedReleases(lock) == FALSE

\* the lock after the busy return of lines 23-26, which precedes the try
\* block: the finally block does not run and the lock is left as it is
Rejected(lock) == lock

\* (faulty variant of ValidationResult: the format is not validated)
ValidationResultAnyFormat(b) ==
    CASE b.kind = "null" -> [status |-> "error", code |-> 500]
      [] b.kind = "array0" -> [status |-> "error", code |-> 400]
      [] ParseTopic(b.data) = S_empty -> [status |-> "error", code |-> 400]
      [] OTHER -> [status |-> "ok", code |-> 0]

\* the validation result of a body: "ok" or the error response (lines 29-80)
ValidationResult(b) ==
    CASE b.kind = "null" -> [status |-> "error", code |-> 500]
      [] b.kind = "array0" -> [status |-> "error", code |-> 400]
      [] ParseTopic(b.data) = S_empty -> [status |-> "error", code |-> 400]
      [] ~ServerFormatOk(ParseFormat(b.data)) -> [status |-> "error", code |-> 400]
      [] OTHER -> [status |-> "ok", code |-> 0]

\* (faulty variant of BusyResponse: the body is validated before the lock is tried)
BusyResponseValidated(b) ==
    IF ValidationResult(b).status = "ok"
    THEN [status |-> "busy", code |-> 429]
    ELSE ValidationResult(b)

\* the response of lines 23-26 to a request with body b that found the lock
\* held: request.json has not been read
BusyResponse(b) == [status |-> "busy", code |-> 429]

\* A request with body b arrives (requests are numbered in their order of
\* arrival): the handler tries the lock and either answers busy or enters
\* the try block with the lock held.
ArriveWith(r, b) ==
    /\ pc[r] = "idle"
    /\ \A q \in Reqs : q < r => pc[q] # "idle"
    /\ IF Acquire(pipeline_lock)
       THEN /\ pipeline_lock' = TRUE
            /\ body' = [body EXCEPT ![r] = b]
            /\ pc' = [pc EXCEPT ![r] = "try"]
            /\ UNCHANGED << ret, response >>
       ELSE /\ response' = [response EXCEPT ![r] = BusyResponse(b)]
            /\ pc' = [pc EXCEPT ![r] = "done"]
            /\ pipeline_lock' = Rejected(pipeline_lock)
            /\ UNCHANGED << body, ret >>
    /\ trigger' = [trigger EXCEPT ![r] = "http"]
    /\ UNCHANGED << now, procvars, fsvars, faults >>

\* the bodies of the requests that are answered busy: the handler returns
\* before it reads request.json, so one body stands for all those that get
\* the same answer
UnreadBodies ==
    { CHOOSE b \in RequestBodies : BusyResponse(b) = a :
          a \in { BusyResponse(b) : b \in RequestBodies } }

Arrive(r) ==
    \E b \in (IF Acquire(pipeline_lock) THEN RequestBodies ELSE UnreadBodies) :
        ArriveWith(r, b)

\* The try block up to subprocess.run: an invalid body returns an error, a
\* valid one starts main.py with the parsed arguments.
Validate(r) ==
    /\ pc[r] = "try"
    /\ LET v == ValidationResult(body[r]) IN
        IF v.status = "ok"
        THEN /\ argv' = [argv EXCEPT ![r] = ServerArgv(body[r].data)]
             /\ pc' = [pc EXCEPT ![r] = "main"]
             /\ ret' = ret
        ELSE /\ ret' = [ret EXCEPT ![r] = v]
             /\ pc' = [pc EXCEPT ![r] = "finally"]
             /\ argv' = argv
    /\ body' = [body EXCEPT ![r] = NoBody]
    /\ UNCHANGED << pipeline_lock, now, trigger, cfg, run, log, response, fsvars, faults >>

\* subprocess.run(check=True) returns: exit code 0 is success, anything else
\* raises CalledProcessError, answered with status error
\* (faulty variant of SubprocessResult: subprocess.run without check=True)
SubprocessResultUnchecked(exitcode) == [status |-> "success", code |-> 200]

SubprocessResult(exitcode) ==
    IF exitcode = 0
    THEN [status |-> "success", code |-> 200]
    ELSE [status |-> "error", code |-> 500]

ChildExited(r) ==
    /\ pc[r] = "exited" /\ trigger[r] = "http"
    /\ ret' = [ret EXCEPT ![r] = SubprocessResult(run[r].exitcode)]
    /\ pc' = [pc EXCEPT ![r] = "finally"]
    /\ UNCHANGED << pipeline_lock, now, body, trigger, procvars, response, fsvars, faults >>

\* The finally block: release the lock; the response then reaches the client
\* and the handler's locals and the ended child process are gone.
\* Releasing an unlocked threading.Lock raises RuntimeError.  Release is the
\* lock after pipeline_lock.release(), whatever value the handler returns.
\* (faulty variant of Release: the release sits at the end of the try block, so an
\* error return keeps the lock)
ReleaseOnSuccessOnly(lock, status) == IF status = "success" THEN FALSE ELSE lock

Release(lock, status) == FALSE

Finally(r) ==
    /\ pc[r] = "finally"
    /\ pipeline_lock' = Release(pipeline_lock, ret[r].status)
    /\ response' = [response EXCEPT ![r] =
                      IF pipeline_lock THEN ret[r] ELSE [status |-> "error", code |-> 500]]
    /\ pc' = [pc EXCEPT ![r] = "done"]
    /\ argv' = [argv EXCEPT ![r] = << >>]
    /\ cfg' = [cfg EXCEPT ![r] = NoCfg]
    /\ run' = [run EXCEPT ![r] = NoRun]
    /\ log' = [log EXCEPT ![r] = << >>]
    /\ ret' = [ret EXCEPT ![r] = NoResponse]
    /\ UNCHANGED << now, body, trigger, fsvars, faults >>

(***************************************************************************)
(* main.py: the child process.                                             *)
(***************************************************************************)
\* What a call to an external service or tool may do: return (TRUE) or, while
\* the bound on such failures allows one more, raise (FALSE).
CallOutcomes == IF faults < MaxFaults THEN BOOLEAN ELSE {TRUE}

\* the number of calls that have raised, after one that returned (ok) or raised
Counted(ok) == IF ok THEN faults ELSE faults + 1

Logged(r, stage, outcome) == [log EXCEPT ![r] = Append(@, << stage, outcome >>)]

\* (faulty variant of Following: voice synthesis is left out)
FollowingSkipsVoice(p) ==
    CASE p = "main" -> "step1"
      [] p = "step1" -> "step2"
      [] p = "step2" -> "step3"
      [] p = "step3" -> "step5"
      [] p = "step4" -> "step5"
      [] p = "step5" -> "step6"
      [] p = "step6" -> "step7"
      [] p = "step7" -> "step7b"
      [] p = "step7b" -> "step8"
      [] p = "step8" -> "finalize"
      [] p = "finalize" -> "teardown"

\* run_pipeline is straight-line code: the step that follows a step which
\* did not raise (lines 141-252; a caught exception is not a raise)
Following(p) ==
    CASE p = "main" -> "step1"
      [] p = "step1" -> "step2"
      [] p = "step2" -> "step3"
      [] p = "step3" -> "step4"
      [] p = "step4" -> "step5"
      [] p = "step5" -> "step6"
      [] p = "step6" -> "step7"
      [] p = "step7" -> "step7b"
      [] p = "step7b" -> "step8"
      [] p = "step8" -> "finalize"
      [] p = "finalize" -> "teardown"

\* an uncaught exception ends the process with exit code 1
Raised(r, stage) ==
    /\ log' = Logged(r, stage, "error")
    /\ run' = [run EXCEPT ![r].exitcode = 1]
    /\ pc' = [pc EXCEPT ![r] = "exited"]

Workspace(r) == runs[run[r].run_id]

\* os.path.exists of a file of the run's workspace
WsExists(r, name) == Workspace(r).exists /\ Workspace(r).files[name] # 0

\* os.makedirs(..., exist_ok=True) of the three directories of runs/<run_id>
MakeDirs(ws) == [ws EXCEPT !.exists = TRUE]

\* The __main__ block and the head of run_pipeline (lines 115-131): read the
\* arguments, leave with exit code 1 on an empty topic, else derive run_id
\* from the clock and create the workspace directories.  datetime.now() is
\* the only place where the program reads the clock.  Seconds are numbered
\* in the order in which they are read (the first reading shows second 0): a
\* reading shows the second of the previous reading or the one after it.
Main(r) ==
    /\ pc[r] = "main"
    /\ \E ans \in Prompted(argv[r]) : LET inputs == ReadInputs(argv[r], ans) IN
        IF inputs.topic = S_empty
        THEN /\ run' = [run EXCEPT ![r].exitcode = 1]
             /\ pc' = [pc EXCEPT ![r] = "exited"]
             /\ UNCHANGED << cfg, runs, now >>
        ELSE /\ cfg' = [cfg EXCEPT ![r] =
                          [topic |-> inputs.topic, upload |-> inputs.upload,
                           format_type |-> FormatType(inputs.format),
                           privacy |-> inputs.privacy]]
             /\ \E t \in RunIds :
                  /\ t \in { now, now + 1 }
                  /\ now' = t
                  /\ run' = [run EXCEPT ![r].run_id = t]
                  /\ runs' = [runs EXCEPT ![t] = MakeDirs(@)]
             /\ pc' = [pc EXCEPT ![r] = Following("main")]
    /\ UNCHANGED << pipeline_lock, body, trigger, argv, log, ret, response,
                    assets, output, youtube, faults >>

\* Step 1: generate_script, then the script is saved in the workspace
Step1(r) ==
    /\ pc[r] = "step1"
    /\ \E ok \in CallOutcomes :
        /\ faults' = Counted(ok)
        /\ IF ok /\ Workspace(r).exists
           THEN /\ runs' = [runs EXCEPT ![run[r].run_id].files["script.txt"] = r]
                /\ log' = Logged(r, "script", "ok")
                /\ pc' = [pc EXCEPT ![r] = Following("step1")]
                /\ run' = run
           ELSE /\ Raised(r, "script")
                /\ runs' = runs
    /\ UNCHANGED << pipeline_lock, now, body, trigger, argv, cfg, ret, response,
                    assets, output, youtube >>

\* Step 2: extract_scenes returns up to num_scenes descriptions, or raises
Step2(r) ==
    /\ pc[r] = "step2"
    /\ \E ok \in CallOutcomes, n \in 0..MaxImages :
        /\ faults' = Counted(ok)
        /\ IF ok
           THEN /\ run' = [run EXCEPT ![r].scenes = n]
                /\ log' = Logged(r, "scenes", "ok")
                /\ pc' = [pc EXCEPT ![r] = Following("step2")]
           ELSE Raised(r, "scenes")
    /\ UNCHANGED << pipeline_lock, now, body, trigger, argv, cfg, ret, response, fsvars >>

\* Step 3: generate_metadata
Step3(r) ==
    /\ pc[r] = "step3"
    /\ \E ok \in CallOutcomes :
        /\ faults' = Counted(ok)
        /\ IF ok
           THEN /\ log' = Logged(r, "metadata", "ok")
                /\ pc' = [pc EXCEPT ![r] = Following("step3")]
                /\ run' = run
           ELSE Raised(r, "metadata")
    /\ UNCHANGED << pipeline_lock, now, body, trigger, argv, cfg, ret, response, fsvars >>

\* Step 4: make_voice writes audio/voice.mp3
Step4(r) ==
    /\ pc[r] = "step4"
    /\ \E ok \in CallOutcomes :
        /\ faults' = Counted(ok)
        /\ IF ok /\ Workspace(r).exists
           THEN /\ runs' = [runs EXCEPT ![run[r].run_id].files["voice.mp3"] = r]
                /\ log' = Logged(r, "voice", "ok")
                /\ pc' = [pc EXCEPT ![r] = Following("step4")]
                /\ run' = run
           ELSE /\ Raised(r, "voice")
                /\ runs' = runs
    /\ UNCHANGED << pipeline_lock, now, body, trigger, argv, cfg, ret, response,
                    assets, output, youtube >>

(***************************************************************************)
(* Step 5: fetch_visuals.py.  The searches and downloads are calls to the  *)
(* image service; what they return is the environment's choice.            *)
(***************************************************************************)
Below(n) == { i \in ImgIdx : i < n }

\* one GET of the search endpoint: the query ("topic", "generic" for
\* "nature landscape", "full" or "short" for a scene description), the scene
\* it was made for (-1: none) and what came back
Search(q, scene, res) == [q |-> q, scene |-> scene, res |-> res]

\* the downloads after a search of fetch_images that returned photos: n
\* files are written, and the download after them raised or there was none
Downloads ==
    { d \in [raised : BOOLEAN, n : 0..MaxImages] :
        IF d.raised THEN d.n < MaxImages ELSE d.n > 0 }

\* a call that ends without a photo
NoImages(searches, raised, nfaults) ==
    [searches |-> searches, raised |-> raised, written |-> {}, returned |-> {},
     nfaults |-> nfaults]

Downloaded(searches, d) ==
    [searches |-> searches, raised |-> d.raised, written |-> Below(d.n),
     returned |-> IF d.raised THEN {} ELSE Below(d.n),
     nfaults |-> IF d.raised THEN 1 ELSE 0]

\* (faulty variant of FetchImages: an empty result raises, with no second search)
FetchImagesRaisesOnEmpty(query) ==
    { NoImages(<< Search(query, -1, "raised") >>, TRUE, 1),
      NoImages(<< Search(query, -1, "empty") >>, TRUE, 0) }
    \cup { Downloaded(<< Search(query, -1, "photos") >>, d) : d \in Downloads }

\* fetch_images(query) with the API key set: the ways the call can go.  An
\* empty result is followed by one search for "nature landscape"; a search
\* or download that raises ends the call.
FetchImages(query) ==
    LET first(res) == << Search(query, -1, res) >>
        second(res) == << Search(query, -1, "empty"), Search("generic", -1, res) >>
    IN  { NoImages(first("raised"), TRUE, 1),
          NoImages(second("raised"), TRUE, 1),
          NoImages(second("empty"), FALSE, 0) }
        \cup { Downloaded(first("photos"), d) : d \in Downloads }
        \cup { Downloaded(second("photos"), d) : d \in Downloads }

\* (faulty variant of SceneRuns: no second search with the shortened query)
SceneRunsNoRetry(i) ==
    { [searches |-> << Search("full", i, "raised") >>, saved |-> FALSE, nfaults |-> 1],
      [searches |-> << Search("full", i, "empty") >>, saved |-> FALSE, nfaults |-> 0],
      [searches |-> << Search("full", i, "photos") >>, saved |-> TRUE, nfaults |-> 0],
      [searches |-> << Search("full", i, "photos") >>, saved |-> FALSE, nfaults |-> 1] }

\* One turn of the loop of fetch_images_for_scenes, for scene i: the search
\* with the full description, on an empty result the search with its first
\* three words, then the download of the first photo.  Whatever raises is
\* caught inside the turn, which then saves nothing.
SceneRuns(i) ==
    LET full(res) == << Search("full", i, res) >>
        short(res) == << Search("full", i, "empty"), Search("short", i, res) >>
    IN  { [searches |-> full("raised"), saved |-> FALSE, nfaults |-> 1],
          [searches |-> full("photos"), saved |-> TRUE, nfaults |-> 0],
          [searches |-> full("photos"), saved |-> FALSE, nfaults |-> 1],
          [searches |-> short("raised"), saved |-> FALSE, nfaults |-> 1],
          [searches |-> short("empty"), saved |-> FALSE, nfaults |-> 0],
          [searches |-> short("photos"), saved |-> TRUE, nfaults |-> 0],
          [searches |-> short("photos"), saved |-> FALSE, nfaults |-> 1] }

\* fetch_images_for_scenes with the API key set, for the first n scenes:
\* scene i is saved as img<i>; budget bounds the calls that raise
RECURSIVE FetchImagesForScenes(_, _)
FetchImagesForScenes(n, budget) ==
    IF n = 0
    THEN { NoImages(<< >>, FALSE, 0) }
    ELSE UNION {
           { [searches |-> p.searches \o s.searches, raised |-> FALSE,
              written |-> IF s.saved THEN p.written \cup {n - 1} ELSE p.written,
              returned |-> IF s.saved THEN p.returned \cup {n - 1} ELSE p.returned,
              nfaults |-> p.nfaults + s.nfaults] :
                s \in { t \in SceneRuns(n - 1) : t.nfaults <= budget - p.nfaults } } :
           p \in FetchImagesForScenes(n - 1, budget) }

\* both functions raise at once when PEXELS_API_KEY is not set
KeyMissing == NoImages(<< >>, TRUE, 1)

\* main.py lines 169-176: per scene if there are scenes, else by topic; an
\* empty result is followed by fetch_images("nature landscape")
AcquireVisuals(scenes, budget) ==
    LET firsts == IF scenes > 0 THEN FetchImagesForScenes(scenes, budget)
                  ELSE FetchImages("topic")
        fallback(f) ==
            { [searches |-> f.searches \o g.searches, raised |-> g.raised,
               written |-> f.written \cup g.written, returned |-> g.returned,
               nfaults |-> f.nfaults + g.nfaults] : g \in FetchImages("generic") }
        all == UNION { IF f.raised \/ f.returned # {} THEN {f} ELSE fallback(f) :
                         f \in firsts }
    IN  { v \in all \cup {KeyMissing} : v.nfaults <= budget }

Step5(r) ==
    /\ pc[r] = "step5"
    /\ \E v \in AcquireVisuals(run[r].scenes, MaxFaults - faults) :
        LET downloaded == [i \in ImgIdx |-> IF i \in v.written THEN r ELSE assets[i]]
        IN  /\ faults' = faults + v.nfaults
            /\ IF v.raised \/ (v.returned # {} /\ ~Workspace(r).exists)
               THEN \* the exception leaves run_pipeline: exit code 1
                    /\ log' = Logged(r, "visuals", "error")
                    /\ run' = [run EXCEPT ![r].exitcode = 1, ![r].searches = v.searches]
                    /\ pc' = [pc EXCEPT ![r] = "exited"]
                    /\ assets' = downloaded
                    /\ runs' = runs
               ELSE \* shutil.move of every returned image into the run's images
                    /\ assets' = [i \in ImgIdx |-> IF i \in v.returned THEN 0 ELSE downloaded[i]]
                    /\ runs' = [runs EXCEPT ![run[r].run_id].images =
                                  [i \in ImgIdx |->
                                      IF i \in v.returned THEN downloaded[i] ELSE @[i]]]
                    /\ run' = [run EXCEPT ![r].images = v.returned,
                                          ![r].searches = v.searches]
                    /\ log' = Logged(r, "visuals", "ok")
                    /\ pc' = [pc EXCEPT ![r] = Following("step5")]
    /\ UNCHANGED << pipeline_lock, now, body, trigger, argv, cfg, ret, response, output, youtube >>

(***************************************************************************)
(* Step 6: make_video.create_video                                         *)
(***************************************************************************)
\* glob(images_dir/img*.jpg)
ImageFiles(ws) == { i \in ImgIdx : ws.exists /\ ws.images[i] # 0 }

\* The scene list and the record of the searches are not read after step 5:
\* they are dropped when step 6 begins.
Step6(r) ==
    /\ pc[r] = "step6"
    /\ \E ok \in CallOutcomes :
        /\ faults' = Counted(ok)
        /\ IF WsExists(r, "voice.mp3") /\ ImageFiles(Workspace(r)) # {} /\ ok
           THEN /\ runs' = [runs EXCEPT ![run[r].run_id].files["final.mp4"] = r]
                /\ run' = [run EXCEPT ![r].video_path = "final.mp4",
                                      ![r].scenes = 0, ![r].searches = << >>]
                /\ log' = Logged(r, "assembly", "ok")
                /\ pc' = [pc EXCEPT ![r] = Following("step6")]
           ELSE /\ log' = Logged(r, "assembly", "error")
                /\ run' = [run EXCEPT ![r].exitcode = 1,
                                      ![r].scenes = 0, ![r].searches = << >>]
                /\ pc' = [pc EXCEPT ![r] = "exited"]
                /\ runs' = runs
    /\ UNCHANGED << pipeline_lock, now, body, trigger, argv, cfg, ret, response,
                    assets, output, youtube >>

(***************************************************************************)
(* Step 7: subtitles.generate_srt and burn_subtitles inside try/except     *)
(***************************************************************************)
\* (faulty variant of SubtitleHandler: the exception is raised again)
SubtitleHandlerRethrows(video_path) == [rethrow |-> TRUE, final_video |-> video_path]

\* (faulty variant of SubtitleHandler: the subtitled path is kept as the final video)
SubtitleHandlerKeepsPath(video_path) ==
    [rethrow |-> FALSE, final_video |-> "final_subtitled.mp4"]

\* the except clause of step 7 (lines 206-209): the exception is swallowed
\* and the unsubtitled video becomes the final video
SubtitleHandler(video_path) == [rethrow |-> FALSE, final_video |-> video_path]

Step7(r) ==
    /\ pc[r] = "step7"
    /\ \E srt_ok \in CallOutcomes, burn_ok \in CallOutcomes :
        LET srt == WsExists(r, "voice.mp3") /\ srt_ok
            burnt == srt /\ WsExists(r, "final.mp4") /\ burn_ok
            h == SubtitleHandler(run[r].video_path)
        IN  /\ faults' = Counted(srt_ok /\ burn_ok)
            /\ IF burnt
               THEN /\ runs' = [runs EXCEPT ![run[r].run_id].files =
                                  [@ EXCEPT !["voice.srt"] = r, !["final_subtitled.mp4"] = r]]
                    /\ run' = [run EXCEPT ![r].final_video = "final_subtitled.mp4"]
                    /\ log' = Logged(r, "subtitles", "ok")
                    /\ pc' = [pc EXCEPT ![r] = Following("step7")]
               ELSE /\ runs' = IF srt THEN [runs EXCEPT ![run[r].run_id].files["voice.srt"] = r]
                               ELSE runs
                    /\ IF h.rethrow
                       THEN Raised(r, "subtitles")
                       ELSE /\ run' = [run EXCEPT ![r].final_video = h.final_video]
                            /\ log' = Logged(r, "subtitles",
                                            IF srt THEN "burn_error" ELSE "srt_error")
                            /\ pc' = [pc EXCEPT ![r] = Following("step7")]
    /\ UNCHANGED << pipeline_lock, now, body, trigger, argv, cfg, ret, response,
                    assets, output, youtube >>

(***************************************************************************)
(* Step 7b: the thumbnail.  A Python call that passes a keyword the        *)
(* function does not declare raises TypeError before the body runs.        *)
(***************************************************************************)
\* a call binds iff every keyword it passes is a declared parameter
Binds(params, keywords) == keywords \subseteq params

\* def create_thumbnail(title, image_path, output_path)
CreateThumbnailParams == { "title", "image_path", "output_path" }
\* the keywords of the call in main.py (the title is passed by position)
CreateThumbnailCall == { "image_path", "output_path", "format_type" }

\* (faulty variant of ThumbnailStageRuns: the format is not looked at)
ThumbnailStageAlways(format_type) == TRUE

\* the guard of step 7b
ThumbnailStageRuns(format_type) == format_type = "landscape"

\* os.path.exists of create_thumbnail's image: images[0] of the run, or
\* assets/images/img0.jpg when the run has no image
ThumbnailImageExists(r) ==
    IF run[r].images # {}
    THEN LET first == CHOOSE i \in run[r].images : \A j \in run[r].images : i <= j
         IN  Workspace(r).exists /\ Workspace(r).images[first] # 0
    ELSE assets[0] # 0

Step7b(r) ==
    /\ pc[r] = "step7b"
    /\ \E ok \in BOOLEAN :
        IF ThumbnailStageRuns(cfg[r].format_type)
        THEN IF ~Binds(CreateThumbnailParams, CreateThumbnailCall)
             THEN /\ log' = Logged(r, "thumbnail", "type_error")
                  /\ UNCHANGED << run, runs >>
             ELSE IF ThumbnailImageExists(r) /\ Workspace(r).exists /\ ok
                  THEN /\ runs' = [runs EXCEPT ![run[r].run_id].files["thumbnail.jpg"] = r]
                       /\ run' = [run EXCEPT ![r].thumbnail_path = "thumbnail.jpg"]
                       /\ log' = Logged(r, "thumbnail", "ok")
                  ELSE /\ log' = Logged(r, "thumbnail", "error")
                       /\ UNCHANGED << run, runs >>
        ELSE UNCHANGED << log, run, runs >>
    /\ pc' = [pc EXCEPT ![r] = Following("step7b")]
    /\ UNCHANGED << pipeline_lock, now, body, trigger, argv, cfg, ret, response,
                    assets, output, youtube, faults >>

(***************************************************************************)
(* Step 8: upload_youtube.upload_video inside try/except                   *)
(***************************************************************************)
\* def upload_video(video_path, title, description, tags, category_id,
\*                  privacy, thumbnail_path)
UploadVideoParams ==
    { "video_path", "title", "description", "tags", "category_id", "privacy",
      "thumbnail_path" }
\* the keywords of the call in main.py
UploadVideoCall ==
    { "video_path", "title", "description", "tags", "thumbnail_path", "privacy",
      "is_short" }

\* is_short = (format_type == "portrait")
IsShort(format_type) == format_type = "portrait"

\* the guard of step 8
PublishStageRuns(upload) == upload

\* the value of the keyword video_path in the call of upload_video (line
\* 236); the arguments of a call are evaluated before it is bound
VideoArgument(rn) == rn.final_video

Step8(r) ==
    /\ pc[r] = "step8"
    /\ \E ok \in BOOLEAN :
        IF PublishStageRuns(cfg[r].upload)
        THEN /\ run' = [run EXCEPT ![r].handed = VideoArgument(run[r])]
             /\ IF ~Binds(UploadVideoParams, UploadVideoCall)
                THEN /\ log' = Logged(r, "publish", "type_error")
                     /\ youtube' = youtube
                ELSE IF WsExists(r, VideoArgument(run[r])) /\ ok
                     THEN /\ youtube' = youtube \cup
                               { [req |-> r, video |-> VideoArgument(run[r]),
                                  made_by |-> Workspace(r).files[VideoArgument(run[r])],
                                  privacy |-> cfg[r].privacy,
                                  thumbnail |-> run[r].thumbnail_path,
                                  is_short |-> IsShort(cfg[r].format_type)] }
                          /\ log' = Logged(r, "publish", "ok")
                     ELSE /\ log' = Logged(r, "publish", "error")
                          /\ youtube' = youtube
        ELSE UNCHANGED << log, youtube, run >>
    /\ pc' = [pc EXCEPT ![r] = Following("step8")]
    /\ UNCHANGED << pipeline_lock, now, body, trigger, argv, cfg, ret, response,
                    runs, assets, output, faults >>

(***************************************************************************)
(* cleanup_generated_files, in its two steps, and the end of run_pipeline  *)
(***************************************************************************)
\* lines 83-95: nothing happens without the run directory; the final video,
\* if it exists, is copied to output/<basename>
Finalize(r) ==
    /\ pc[r] = "finalize"
    /\ IF ~Workspace(r).exists
       THEN /\ output' = output
            /\ log' = Logged(r, "finalize", "no_run_dir")
            /\ run' = [run EXCEPT ![r].exitcode = 0]
            /\ pc' = [pc EXCEPT ![r] = "exited"]
       ELSE /\ IF WsExists(r, run[r].final_video)
               THEN /\ output' = [output EXCEPT ![run[r].final_video] =
                                    Workspace(r).files[run[r].final_video]]
                    /\ log' = Logged(r, "finalize", "ok")
               ELSE /\ output' = output
                    /\ log' = Logged(r, "finalize", "missing")
            /\ run' = run
            /\ pc' = [pc EXCEPT ![r] = Following("finalize")]
    /\ UNCHANGED << pipeline_lock, now, body, trigger, argv, cfg, ret, response,
                    runs, assets, youtube, faults >>

\* lines 97-104 and 254-262: shutil.rmtree(run_dir) inside try/except; a
\* failure is printed as a warning; the run then prints PIPELINE COMPLETE
\* and the process ends with exit code 0
\* (faulty variant of RmTree: the directory is reported deleted but left in place)
RmTreeKeeps(ws) == ws

\* shutil.rmtree(run_dir) when it succeeds
RmTree(ws) == NoWorkspace

\* (faulty variant of CleanupExit: the exception of rmtree is not caught)
CleanupExitEscalates(removed) == IF removed THEN 0 ELSE 1

\* the exit code after the cleanup: except Exception (line 101) only prints
\* a warning, run_pipeline returns and the process ends with exit code 0
CleanupExit(removed) == 0

Teardown(r) ==
    /\ pc[r] = "teardown"
    /\ \E ok \in CallOutcomes :
        /\ faults' = Counted(ok)
        /\ IF ok
           THEN /\ runs' = [runs EXCEPT ![run[r].run_id] = RmTree(@)]
                /\ log' = Logged(r, "teardown", "ok")
           ELSE /\ runs' = runs
                /\ log' = Logged(r, "teardown", "error")
        /\ run' = [run EXCEPT ![r].exitcode = CleanupExit(ok)]
    /\ pc' = [pc EXCEPT ![r] = "exited"]
    /\ UNCHANGED << pipeline_lock, now, body, trigger, argv, cfg, ret, response,
                    assets, output, youtube >>

(***************************************************************************)
(* The command-line trigger: `python main.py ...` typed in a shell.  The   *)
(* process runs the same __main__ block and stages, with no server, no     *)
(* lock and no validation in front of it.                                  *)
(***************************************************************************)
CliStart(r) ==
    /\ pc[r] = "idle"
    /\ \A q \in Reqs : q < r => pc[q] # "idle"
    /\ \E a \in CliArgs : argv' = [argv EXCEPT ![r] = a]
    /\ trigger' = [trigger EXCEPT ![r] = "cli"]
    /\ pc' = [pc EXCEPT ![r] = "main"]
    /\ UNCHANGED << pipeline_lock, now, body, cfg, run, log, ret, response, fsvars, faults >>

\* the process has ended and its memory is gone
CliExited(r) ==
    /\ pc[r] = "exited" /\ trigger[r] = "cli"
    /\ pc' = [pc EXCEPT ![r] = "done"]
    /\ argv' = [argv EXCEPT ![r] = << >>]
    /\ cfg' = [cfg EXCEPT ![r] = NoCfg]
    /\ run' = [run EXCEPT ![r] = NoRun]
    /\ log' = [log EXCEPT ![r] = << >>]
    /\ UNCHANGED << pipeline_lock, now, trigger, body, ret, response, fsvars, faults >>

Next ==
    \/ \E r \in Reqs :
        \/ Arrive(r)
        \/ Validate(r)
        \/ ChildExited(r)
        \/ Finally(r)
        \/ Main(r)
        \/ Step1(r)
        \/ Step2(r)
        \/ Step3(r)
        \/ Step4(r)
        \/ Step5(r)
        \/ Step6(r)
        \/ Step7(r)
        \/ Step7b(r)
        \/ Step8(r)
        \/ Finalize(r)
        \/ Teardown(r)

Spec == Init /\ [][Next]_vars

\* what the handler of request r and its child process do on their own
Progress(r) ==
    \/ Validate(r)
    \/ ChildExited(r)
    \/ Finally(r)
    \/ Main(r)
    \/ Step1(r)
    \/ Step2(r)
    \/ Step3(r)
    \/ Step4(r)
    \/ Step5(r)
    \/ Step6(r)
    \/ Step7(r)
    \/ Step7b(r)
    \/ Step8(r)
    \/ Finalize(r)
    \/ Teardown(r)

\* The handler thread and the child process are scheduled, and every call to
\* an external service or tool returns or raises: a step that can be taken
\* is taken.  Nothing is assumed about when requests arrive.
SpecFair == Spec /\ \A r \in Reqs : WF_vars(Progress(r))

\* the program started from the command line only
NextCli ==
    \/ \E r \in Clis :
        \/ CliStart(r)
        \/ CliExited(r)
        \/ Main(r)
        \/ Step1(r)
        \/ Step2(r)
        \/ Step3(r)
        \/ Step4(r)
        \/ Step5(r)
        \/ Step6(r)
        \/ Step7(r)
        \/ Step7b(r)
        \/ Step8(r)
        \/ Finalize(r)
        \/ Teardown(r)

SpecCli == Init /\ [][NextCli]_vars

\* Several shells: the command line typed in any of them while the processes
\* of the others are still running.  Nothing in main.py waits for or looks
\* at another process.
ShellArgs ==
    { << S_v, S_video, S_no, S_private >>, << S_v, S_SHORT, S_TRUE, S_PUBLIC >> }

ShellStart(r) ==
    /\ pc[r] = "idle"
    /\ \A q \in Reqs : q < r => pc[q] # "idle"
    /\ \E a \in ShellArgs : argv' = [argv EXCEPT ![r] = a]
    /\ trigger' = [trigger EXCEPT ![r] = "cli"]
    /\ pc' = [pc EXCEPT ![r] = "main"]
    /\ UNCHANGED << pipeline_lock, now, body, cfg, run, log, ret, response, fsvars, faults >>

NextShell ==
    \/ \E r \in Reqs :
        \/ ShellStart(r)
        \/ CliExited(r)
        \/ Main(r)
        \/ Step1(r)
        \/ Step2(r)
        \/ Step3(r)
        \/ Step4(r)
        \/ Step5(r)
        \/ Step6(r)
        \/ Step7(r)
        \/ Step7b(r)
        \/ Step8(r)
        \/ Finalize(r)
        \/ Teardown(r)

SpecShell == Init /\ [][NextShell]_vars

(***************************************************************************)
(* Properties                                                              *)
(***************************************************************************)
\* the positions of a request that holds the lock: admitted, not yet returned
Holding == { "try", "main", "step1", "step2", "step3", "step4", "step5", "step6",
             "step7", "step7b", "step8", "finalize", "teardown", "exited", "finally" }

\* the positions of a live child process: a pipeline run in progress
InRun == { "main", "step1", "step2", "step3", "step4", "step5", "step6",
           "step7", "step7b", "step8", "finalize", "teardown" }

Busy == [status |-> "busy", code |-> 429]

\* C1: under any interleaving of HTTP requests at most one pipeline run (one
\* live child process with its workspace) is in progress at any time.
C1_AtMostOneRun == Cardinality({ r \in Reqs : pc[r] \in InRun }) <= 1

\* a run is in progress, has its workspace, and another request has arrived
C1_Witness ==
    \E r, q \in Reqs :
        /\ pc[r] = "step5" /\ Workspace(r).exists
        /\ q # r /\ response[q] = Busy

\* C2: a request that arrives while the lock is held leaves its handler in
\* that same step with the busy response (it never waits), starts no child
\* process, changes neither the lock nor any file nor any other request, and
\* is never taken up again (not queued, not retried).
C2_BusyRejected ==
    [][ \A r \in Reqs :
          /\ (pc[r] = "idle" /\ pipeline_lock /\ pc'[r] # "idle") =>
                /\ pc'[r] = "done"
                /\ response'[r] = Busy
                /\ UNCHANGED << pipeline_lock, runs, assets, output, youtube,
                                argv, cfg, run, log, body >>
                /\ \A q \in Reqs \ {r} : pc'[q] = pc[q]
          /\ (pc[r] = "done") => (pc'[r] = "done" /\ response'[r] = response[r])
      ]_vars

\* a request has been answered busy while another run has files in its workspace
C2_Witness ==
    \E r, q \in Reqs :
        /\ q # r /\ response[q] = Busy /\ pc[q] = "done"
        /\ pc[r] = "step6" /\ Workspace(r).files["voice.mp3"] = r

\* C3: the lock is released on every exit path of an admitted request: it is
\* held only while some admitted request has not returned, a request that
\* returns leaves it free, and the next request to arrive then is admitted.
C3_Released ==
    /\ pipeline_lock => \E r \in Reqs : pc[r] \in Holding
    /\ \A r \in Reqs :
         (/\ pc[r] = "idle"
          /\ \A q \in Reqs : q < r => pc[q] # "idle"
          /\ \A q \in Reqs : pc[q] \notin Holding) =>
            ENABLED (Arrive(r) /\ pc'[r] = "try")

\* a request admitted after an earlier request has ended in a fatal failure
C3_Witness ==
    \E r, q \in Reqs :
        /\ pc[q] = "done" /\ response[q] = [status |-> "error", code |-> 500]
        /\ \E id \in RunIds : runs[id].files["voice.mp3"] = q
        /\ pc[r] = "main"

\* the child process of r has ended with exit code 0 (PIPELINE COMPLETE)
Succeeded(r) == pc[r] = "exited" /\ run[r].exitcode = 0

HasLogged(r, stage, outcome) == \E i \in 1..Len(log[r]) : log[r][i] = << stage, outcome >>
Executed(r, stage) == \E i \in 1..Len(log[r]) : log[r][i][1] = stage

\* the files of output/ that hold a video made by run r
Artifacts(r) == { n \in OutNames : output[n] = r }

AfterAssembly == { "step7", "step7b", "step8", "finalize", "teardown", "exited", "finally" }

\* C5: once assembly (step 6) has succeeded, no failure of the subtitle,
\* thumbnail or publish stage ends the run: the process ends with exit code
\* 0, the handler answers success, and the rendered video is in output/.
C5_CosmeticFailuresSwallowed ==
    \A r \in Reqs :
        HasLogged(r, "assembly", "ok") =>
            /\ pc[r] \in AfterAssembly
            /\ pc[r] \in {"exited", "finally"} =>
                  /\ run[r].exitcode = 0
                  /\ output[run[r].final_video] = r
            /\ pc[r] = "finally" => ret[r].status = "success"

\* a landscape run with publishing in which the subtitle, the thumbnail and
\* the publish stage all failed, about to answer success
C5_Witness ==
    \E r \in Reqs :
        /\ pc[r] = "finally" /\ ret[r].status = "success"
        /\ HasLogged(r, "subtitles", "srt_error")
        /\ HasLogged(r, "thumbnail", "type_error")
        /\ HasLogged(r, "publish", "type_error")
        /\ output["final.mp4"] = r

\* C6: when transcription or burning fails, the final artifact is the silent
\* video of step 6 and the run still succeeds; when burning succeeds the
\* final artifact is the subtitled video.
C6_FinalArtifact ==
    \A r \in Reqs :
        /\ (HasLogged(r, "subtitles", "srt_error") \/ HasLogged(r, "subtitles", "burn_error")) =>
              /\ run[r].final_video = run[r].video_path
              /\ run[r].final_video = "final.mp4"
              /\ pc[r] = "exited" => (run[r].exitcode = 0 /\ Artifacts(r) = {"final.mp4"})
        /\ HasLogged(r, "subtitles", "ok") =>
              /\ run[r].final_video = "final_subtitled.mp4"
              /\ pc[r] = "exited" =>
                    (run[r].exitcode = 0 /\ Artifacts(r) = {"final_subtitled.mp4"})

\* a run whose burning failed after a successful transcription has ended
\* with the silent video in output/
C6_Witness ==
    \E r \in Reqs :
        /\ Succeeded(r) /\ HasLogged(r, "subtitles", "burn_error")
        /\ output["final.mp4"] = r

\* C7 as claimed: after a fatal failure of a stage the run's workspace
\* directory no longer exists.
C7_Claim ==
    \A r \in Reqs :
        (pc[r] = "exited" /\ run[r].exitcode = 1 /\ log[r] # << >>) => ~Workspace(r).exists

FatalStages == { "script", "metadata", "voice", "assembly" }

\* C8: when script generation, metadata generation, voice synthesis or
\* assembly fails, the failing stage is the last one the run executes, the
\* process ends with exit code 1, nothing of the run is published or copied
\* to output/, and the handler answers with status error.
C8_FatalAborts ==
    \A r \in Reqs : \A i \in 1..Len(log[r]) :
        (log[r][i][1] \in FatalStages /\ log[r][i][2] = "error") =>
            /\ i = Len(log[r])
            /\ pc[r] \in {"exited", "finally"}
            /\ run[r].exitcode = 1
            /\ Artifacts(r) = {}
            /\ \A y \in youtube : y.req # r
            /\ pc[r] = "finally" => ret[r].status = "error"

\* a run whose assembly failed, with publishing asked for, answers error
C8_Witness ==
    \E r \in Reqs :
        /\ pc[r] = "finally" /\ ret[r] = [status |-> "error", code |-> 500]
        /\ HasLogged(r, "assembly", "error") /\ cfg[r].upload

\* C9: in a portrait run the thumbnail stage never executes, no thumbnail
\* file is produced and none is passed to publishing.
C9_NoThumbnailForPortrait ==
    \A r \in Reqs :
        cfg[r].format_type = "portrait" =>
            /\ ~Executed(r, "thumbnail")
            /\ run[r].thumbnail_path = "none"
            /\ \A id \in RunIds : runs[id].files["thumbnail.jpg"] # r
            /\ \A y \in youtube : y.req = r => y.thumbnail = "none"

\* a portrait run with publishing asked for and visibility public has gone
\* past the thumbnail and the publish step
C9_Witness ==
    \E r \in Reqs :
        /\ cfg[r].format_type = "portrait" /\ cfg[r].upload /\ cfg[r].privacy = S_public
        /\ pc[r] = "finalize" /\ Executed(r, "publish")

\* C10 as claimed: when publishing is asked for and the publish service does
\* not fail, the final video of the run is published, with is_short true
\* for portrait and false for landscape.
C10_Claim ==
    \A r \in Reqs :
        (Succeeded(r) /\ cfg[r].upload /\ ~HasLogged(r, "publish", "error")) =>
            \E y \in youtube :
                /\ y.req = r /\ y.video = run[r].final_video
                /\ y.is_short = (cfg[r].format_type = "portrait")

\* every call of run r to an external service or tool has returned: the only
\* failures on record are those of calls that could not be made
ServicesWorked(r) ==
    \A i \in 1..Len(log[r]) : log[r][i][2] \in { "ok", "type_error" }

\* a thumbnail file made by run r is on disk
ThumbnailPresent(r) ==
    \E id \in RunIds : runs[id].exists /\ runs[id].files["thumbnail.jpg"] = r

\* C11 as claimed: a landscape run without publishing in which no stage
\* fails ends with a video in output/ and with a thumbnail file present.
C11_Claim ==
    \A r \in Reqs :
        (Succeeded(r) /\ cfg[r].format_type = "landscape" /\ ~cfg[r].upload
            /\ ServicesWorked(r)) =>
                Artifacts(r) # {} /\ ThumbnailPresent(r)

\* run_pipeline of main.py has been called for r: it has its arguments
Configured(r) == cfg[r] # NoCfg

\* C12 as claimed: with either trigger, a topic that is empty after trimming
\* never reaches the pipeline: no run is configured with it and so no
\* workspace is created for it.
C12_Claim ==
    \A r \in Reqs :
        Configured(r) => Strip(cfg[r].topic) # S_empty

\* C13 as claimed: with either trigger, the pipeline is only invoked with a
\* format token that is short (giving portrait) or video (giving landscape).
C13_Claim ==
    \A r \in Reqs :
        (Configured(r) /\ Len(argv[r]) >= 4) =>
            LET token == Lower(argv[r][2]) IN
            /\ token \in { S_short, S_video }
            /\ cfg[r].format_type = (IF token = S_short THEN "portrait" ELSE "landscape")

\* C14 as claimed: with either trigger, the string forms true, yes and 1 of
\* the upload field give true and every other listed form gives false.
C14_Claim ==
    \A r \in Reqs :
        (Configured(r) /\ Len(argv[r]) >= 4) =>
            cfg[r].upload = (Lower(argv[r][3]) \in { S_true, S_yes, S_1 })

\* C15 as claimed: a run configured without publishing has visibility
\* private, whatever privacy the request carried.
C15_Claim ==
    \A r \in Reqs :
        (Configured(r) /\ ~cfg[r].upload) => cfg[r].privacy = S_private


\* step 5 has run and step 6 has not: the record of the searches is at hand
VisualsSought(r) == Executed(r, "visuals") /\ ~Executed(r, "assembly")

GenericAttempted(r) ==
    \E i \in 1..Len(run[r].searches) : run[r].searches[i].q = "generic"

\* C16: with an empty scene list the first search is the one for the topic
\* and no search is made for a scene; when the topic search returns no
\* photo, the search that follows it is the one for the generic term, so
\* that no run ends (at step 5 or for want of images at step 6) on an empty
\* topic result alone.  No search at all means the API key was missing.
C16_TopicThenGeneric ==
    \A r \in Reqs :
        (VisualsSought(r) /\ run[r].scenes = 0) =>
            LET s == run[r].searches
            IN  /\ \A i \in 1..Len(s) : s[i].q \in { "topic", "generic" }
                /\ Len(s) > 0 => s[1].q = "topic"
                /\ (Len(s) > 0 /\ s[1].res = "empty") =>
                      Len(s) >= 2 /\ s[2].q = "generic"
                /\ Len(s) = 0 => HasLogged(r, "visuals", "error")

C16_Witness ==
    \E r \in Reqs :
        /\ VisualsSought(r) /\ run[r].scenes = 0
        /\ Len(run[r].searches) >= 2
        /\ run[r].searches[1] = Search("topic", -1, "empty")
        /\ run[r].searches[2].q = "generic"
        /\ run[r].searches[2].res = "photos"
        /\ pc[r] = "step6"

\* C17 as claimed: step 5 ends the run only after a search for the generic
\* term has been made; otherwise the run is at step 6 with an image.
C17_Claim ==
    \A r \in Reqs :
        VisualsSought(r) =>
            IF HasLogged(r, "visuals", "error")
            THEN GenericAttempted(r)
            ELSE GenericAttempted(r) \/ run[r].images # {}

\* the searches made for scene i, in the order they were made
RECURSIVE SceneSearches(_, _)
SceneSearches(s, i) ==
    IF s = << >> THEN << >>
    ELSE IF Head(s).scene = i THEN << Head(s) >> \o SceneSearches(Tail(s), i)
         ELSE SceneSearches(Tail(s), i)

\* C18: with a scene list, and the API key set, every scene gets a search
\* with its full description and, exactly when that search returns no photo,
\* one more with the shortened query: never a third.  Scenes are searched in
\* order, each of them whatever happened to the ones before (no result, a
\* search or a download that raised); a scene that got no photo has no image
\* among those of the run; and step 5 does not end the run on the scenes: if
\* it fails, the key was missing or the fallback search had been reached.
C18_PerSceneSearches ==
    \A r \in Reqs :
        (VisualsSought(r) /\ run[r].scenes > 0 /\ run[r].searches # << >>) =>
            LET s == run[r].searches
            IN  /\ \A i \in Below(run[r].scenes) :
                    LET ss == SceneSearches(s, i)
                    IN  /\ Len(ss) \in { 1, 2 }
                        /\ ss[1].q = "full"
                        /\ Len(ss) = 2 <=> ss[1].res = "empty"
                        /\ Len(ss) = 2 => ss[2].q = "short"
                        /\ (pc[r] = "step6" /\ ~GenericAttempted(r)) =>
                              (i \in run[r].images => ss[Len(ss)].res = "photos")
                /\ \A a, b \in 1..Len(s) :
                      (a < b /\ s[b].scene >= 0) =>
                          s[a].scene >= 0 /\ s[a].scene <= s[b].scene
                /\ HasLogged(r, "visuals", "error") => GenericAttempted(r)

C18_Witness ==
    \E r \in Reqs :
        /\ pc[r] = "step6" /\ run[r].scenes = 2
        /\ run[r].searches = << Search("full", 0, "raised"),
                                Search("full", 1, "empty"),
                                Search("short", 1, "photos") >>
        /\ run[r].images = {1}

\* the call of upload_video was bound to its parameters and its body ran
PublishInvoked(r) ==
    HasLogged(r, "publish", "ok") \/ HasLogged(r, "publish", "error")

\* the entries of stage in the log of run r
StageEntries(r, stage) == { i \in 1..Len(log[r]) : log[r][i][1] = stage }

\* C19 as claimed: a run that reached its end has invoked the publish
\* service exactly when its upload flag is set, and not more than once; a run
\* whose publish stage failed still ends with exit code 0.
C19_Claim ==
    \A r \in Reqs :
        /\ Cardinality(StageEntries(r, "publish")) <= 1
        /\ Succeeded(r) => (PublishInvoked(r) <=> cfg[r].upload)
        /\ (pc[r] = "exited" /\ Executed(r, "publish")) => run[r].exitcode = 0

\* a body the handler accepts: a JSON object (or the first element of an
\* array) with a topic that is not blank and a format of short or video
BodyValid(b) ==
    /\ b.kind \notin { "null", "array0" }
    /\ ParseTopic(b.data) # S_empty
    /\ ParseFormat(b.data) \in { S_short, S_video }

\* C20: a request is answered once, when its handler returns, with status
\* success, busy or error.  It is answered busy, at once, exactly when the
\* lock is held as it arrives.  An admitted request with an invalid body is
\* answered error without a child process; one with a valid body starts the
\* child and is answered success exactly when the child ends with exit code
\* 0, error when it ends with another.  A response once given never changes.
C20_OneResponse ==
    [][ \A r \in Reqs :
          /\ (pc[r] = "done") <=> (response[r] # NoResponse)
          /\ (pc'[r] = "done") <=> (response'[r] # NoResponse)
          /\ response[r] # NoResponse => response'[r] = response[r]
          /\ response'[r] # NoResponse =>
                response'[r].status \in { "success", "busy", "error" }
          /\ (pc[r] = "idle" /\ pc'[r] # "idle") =>
                IF pipeline_lock
                THEN pc'[r] = "done" /\ response'[r].status = "busy"
                ELSE pc'[r] = "try"
          /\ (pc[r] = "try" /\ pc'[r] # "try") =>
                IF BodyValid(body[r])
                THEN pc'[r] = "main" /\ ret'[r] = NoResponse
                ELSE pc'[r] = "finally" /\ ret'[r].status = "error"
          /\ (pc[r] = "exited" /\ pc'[r] # "exited") =>
                /\ pc'[r] = "finally"
                /\ ret'[r].status = IF run[r].exitcode = 0 THEN "success" ELSE "error"
          /\ (pc[r] = "finally" /\ pc'[r] # "finally") =>
                /\ pc'[r] = "done"
                /\ response'[r].status = ret[r].status
                /\ ret[r].status \in { "success", "error" }
          /\ pc[r] \notin { "idle", "try", "exited", "finally" } =>
                pc'[r] \notin { "try", "finally" } /\ ret'[r] = ret[r]
          /\ (pc'[r] = "done" /\ pc[r] # "done") => pc[r] \in { "idle", "finally" }
      ]_vars

\* one request has been answered success and another error for its body
C20_Witness ==
    \E r, q \in Reqs :
        /\ response[r] = [status |-> "success", code |-> 200]
        /\ response[q] = [status |-> "error", code |-> 400]

\* the cleanup of run r found its final video and copied it to output/
Finalized(r) == HasLogged(r, "finalize", "ok")

\* C21 as claimed: a run whose final video (or whole run directory) is
\* missing when the cleanup runs ends as a failure: no process ends with
\* exit code 0 unless its cleanup copied the final video to output/.
C21_Claim ==
    \A r \in Reqs :
        (pc[r] = "exited" /\ Executed(r, "finalize") /\ ~Finalized(r)) =>
            run[r].exitcode # 0

\* C22: when the final video has been copied to output/ and the removal of
\* the run directory then fails, the process still ends with exit code 0,
\* the copy is in output/, the directory is left in place, and the handler
\* answers success.
C22_TeardownFailureIsWarning ==
    \A r \in Reqs :
        (Finalized(r) /\ HasLogged(r, "teardown", "error")) =>
            /\ pc[r] \in { "exited", "finally" }
            /\ run[r].exitcode = 0
            /\ Artifacts(r) # {}
            /\ Workspace(r).exists
            /\ pc[r] = "finally" => ret[r] = [status |-> "success", code |-> 200]

C22_Witness ==
    \E r \in Reqs :
        /\ pc[r] = "finally" /\ ret[r].status = "success"
        /\ Finalized(r) /\ HasLogged(r, "teardown", "error")
        /\ output["final_subtitled.mp4"] = r

\* C23 as claimed: a run gets past the creation of its workspace only when
\* runs/<run_id> did not exist before; on an existing directory it stops.
C23_Claim ==
    [][ \A r \in Reqs :
          (pc[r] = "main" /\ pc'[r] = "step1") => ~runs[run'[r].run_id].exists
      ]_vars

\* C24 as claimed: a step of a run changes on disk only the run's own
\* runs/<run_id> and output/: assets/images, which all runs share, is never
\* changed, nor is the directory of a run_id that no running process has.
C24_Claim ==
    [][ /\ assets' = assets
        /\ \A id \in RunIds :
              runs'[id] # runs[id] =>
                  \E r \in Reqs : run[r].run_id = id \/ run'[r].run_id = id
      ]_vars

\* C25 as claimed: while a process started from the command line is running
\* the pipeline, no other process, however started, is running it.
C25_Claim ==
    \A r, q \in Reqs :
        (r # q /\ trigger[r] = "cli" /\ pc[r] \in InRun) => pc[q] \notin InRun

\* C26 as claimed: a file of output/ is written once: no step changes a
\* file that an earlier cleanup has put there.
C26_Claim ==
    [][ \A n \in OutNames : output[n] # 0 => output'[n] = output[n] ]_vars

StageOrder ==
    << "script", "scenes", "metadata", "voice", "visuals", "assembly", "subtitles",
       "thumbnail", "publish", "finalize", "teardown" >>

StageIndex(stage) == CHOOSE i \in 1..Len(StageOrder) : StageOrder[i] = stage

\* the stages the configuration of run r leaves out
SkippedByConfig(r, stage) ==
    \/ stage = "thumbnail" /\ cfg[r].format_type # "landscape"
    \/ stage = "publish" /\ ~cfg[r].upload

\* the stage a process at position p is about to execute
StageAt(p) ==
    CASE p = "step1" -> 1 [] p = "step2" -> 2 [] p = "step3" -> 3 [] p = "step4" -> 4
      [] p = "step5" -> 5 [] p = "step6" -> 6 [] p = "step7" -> 7 [] p = "step7b" -> 8
      [] p = "step8" -> 9 [] p = "finalize" -> 10 [] p = "teardown" -> 11
      [] OTHER -> 0

\* C27: the stages on the record of a run are stages of the fixed order,
\* each later in that order than the one before it (so none twice, none out
\* of order); before an executed stage every earlier stage was executed,
\* except thumbnail and publish where the configuration leaves them out; a
\* run about to execute a stage has executed all that precede it and none
\* from it on; and a stage that failed fatally is the last one.
C27_StageOrder ==
    \A r \in Reqs :
        LET l == log[r]
            done(k) == Executed(r, StageOrder[k]) \/ SkippedByConfig(r, StageOrder[k])
        IN  /\ \A i \in 1..Len(l) : \E k \in 1..Len(StageOrder) : StageOrder[k] = l[i][1]
            /\ \A i, j \in 1..Len(l) :
                  i < j => StageIndex(l[i][1]) < StageIndex(l[j][1])
            /\ \A i \in 1..Len(l) : \A k \in 1..(StageIndex(l[i][1]) - 1) : done(k)
            /\ StageAt(pc[r]) > 0 =>
                  /\ \A k \in 1..(StageAt(pc[r]) - 1) : done(k)
                  /\ \A i \in 1..Len(l) : StageIndex(l[i][1]) < StageAt(pc[r])
            /\ (pc[r] = "exited" /\ run[r].exitcode = 1 /\ l # << >>) =>
                  l[Len(l)][2] = "error"

C27_Witness ==
    \E r \in Reqs :
        /\ pc[r] = "exited" /\ Len(log[r]) = Len(StageOrder)
        /\ \A k \in 1..Len(StageOrder) : log[r][k][1] = StageOrder[k]

\* a rendered video is in the workspace of run r
VideoInWorkspace(r) ==
    \E n \in { "final.mp4", "final_subtitled.mp4" } : WsExists(r, n)

\* C28 as claimed: from the moment assembly has succeeded until the process
\* is gone, a rendered video is in the run's workspace or the run's cleanup
\* has copied it to output/: the workspace does not go before the copy.
C28_Claim ==
    \A r \in Reqs :
        HasLogged(r, "assembly", "ok") => VideoInWorkspace(r) \/ Finalized(r)

\* C29: every admitted request comes to its end, answered success or error,
\* with its child process (if one was started) ended; and whenever the lock
\* is held it becomes free again.
C29_Terminates ==
    /\ \A r \in Reqs :
          (pc[r] \in Holding) ~>
              (pc[r] = "done" /\ response[r].status \in { "success", "error" })
    /\ pipeline_lock ~> ~pipeline_lock

\* both requests were admitted, one after the other, and have been answered
C29_Witness ==
    /\ \A r \in Reqs : pc[r] = "done" /\ response[r].status \in { "success", "error" }
    /\ \E r \in Reqs : response[r] = [status |-> "error", code |-> 500]
    /\ ~pipeline_lock

\* the requests that hold the lock: admitted and not yet returned
Holders == { r \in Reqs : pc[r] \in Holding }

\* C30: the lock is held exactly while one admitted request is between its
\* acquire and its return, and free while there is none.  It is taken only
\* by an arriving request that finds it free and released only by the
\* return of the request that holds it; a request answered busy changes
\* neither the lock nor anything else but its own response.
C30_HeldByOne ==
    [][ /\ pipeline_lock <=> Cardinality(Holders) = 1
        /\ ~pipeline_lock <=> Holders = {}
        /\ pipeline_lock' <=> Cardinality(Holders') = 1
        /\ ~pipeline_lock' <=> Holders' = {}
        /\ (pipeline_lock /\ ~pipeline_lock') =>
              \E r \in Holders : pc[r] = "finally" /\ pc'[r] = "done"
        /\ (~pipeline_lock /\ pipeline_lock') =>
              \E r \in Reqs : pc[r] = "idle" /\ pc'[r] = "try"
        /\ \A r \in Reqs :
              (pc[r] = "idle" /\ pc'[r] = "done") =>
                  /\ pipeline_lock /\ pipeline_lock'
                  /\ Holders' = Holders
                  /\ response'[r].status = "busy"
                  /\ UNCHANGED << now, body, argv, cfg, run, log, ret, runs, assets,
                                  output, youtube, faults >>
      ]_vars

\* a request has been answered busy and the request that holds the lock is
\* at its return
C30_Witness ==
    \E r, q \in Reqs :
        /\ pc[q] = "done" /\ response[q].status = "busy"
        /\ pc[r] = "finally" /\ pipeline_lock
        /\ ret[r].status = "success"

\* no child process is running and none has run yet
NoPipelineYet == now = -1 /\ \A r \in Reqs : pc[r] \notin InRun

\* C31: the body is looked at only by a request that holds the lock.  The
\* arrival of a request with any body, invalid or valid, while the lock is
\* held is answered busy and with nothing else, also when the holder is only
\* validating and no child process runs; a validation error is the answer of
\* a request that was admitted and held the lock until then; and a request
\* with an invalid body is in the try block with the lock held.
C31_ValidatedUnderLock ==
    [][ \A r \in Reqs :
          /\ \A b \in RequestBodies :
                (pipeline_lock /\ ArriveWith(r, b)) =>
                    /\ response'[r] = Busy
                    /\ pc'[r] = "done" /\ body'[r] = NoBody
          /\ (pc[r] = "try") => (pipeline_lock /\ body[r] \in RequestBodies)
          /\ (response[r] = NoResponse /\ response'[r].code = 400) =>
                /\ pc[r] = "finally" /\ pipeline_lock
                /\ ret[r] = response'[r]
          /\ (pc[r] = "try" /\ ~BodyValid(body[r]) /\ pc'[r] # "try") =>
                /\ pc'[r] = "finally" /\ pipeline_lock'
                /\ ret'[r].status = "error"
      ]_vars

\* a request was answered busy while the holder of the lock, whose body is
\* invalid, had not started a pipeline; the holder is about to answer 400
C31_Witness ==
    \E r, q \in Reqs :
        /\ NoPipelineYet
        /\ pc[q] = "done" /\ response[q] = Busy
        /\ pc[r] = "finally" /\ ret[r] = [status |-> "error", code |-> 400]
        /\ pipeline_lock

\* C32: when step 8 makes its call, the video it passes is the final video
\* of the run (the subtitled one if the subtitles were burnt in, else the
\* video of step 6), that file is in the workspace at that moment, and the
\* cleanup afterwards copies that same file to output/.
C32_Claim ==
    [][ \A r \in Reqs :
          /\ (pc[r] = "step8" /\ pc'[r] # "step8" /\ cfg[r].upload) =>
                /\ run'[r].handed =
                      (IF HasLogged(r, "subtitles", "ok") THEN "final_subtitled.mp4"
                       ELSE "final.mp4")
                /\ WsExists(r, run'[r].handed)
          /\ (pc[r] = "finalize" /\ pc'[r] # "finalize" /\ run[r].handed # "none") =>
                /\ WsExists(r, run[r].handed)
                /\ output'[run[r].handed] = Workspace(r).files[run[r].handed]
      ]_vars
====
